---- MODULE Spec2Model ----
(***************************************************************************)
(* Model of homework.py: a polling bot that fetches the review status of   *)
(* a homework from an HTTP endpoint, validates the JSON answer, turns the  *)
(* first homework into a status message and forwards it to a chat.         *)
(*                                                                         *)
(* Texts: the module language only has ASCII strings, so the Russian       *)
(* literals of the source are written transliterated.  A text is a tuple   *)
(* of strings, one element per literal piece or formatted argument, so     *)
(* that two texts are equal exactly when the pieces and arguments agree.   *)
(***************************************************************************)
EXTENDS Integers, Sequences, FiniteSets, TLC

VARIABLES
    tokens,             \* PRACTICUM_TOKEN, TELEGRAM_TOKEN, TELEGRAM_CHAT_ID (module globals)
    pc,                 \* position of main()
    now,                \* the wall clock read by time.time()
    current_timestamp,  \* local of main()
    previous_message,   \* local of main()
    message,            \* local of main(); may be unbound
    fetch_calls,        \* number of requests.get calls issued so far
    send_calls,         \* number of bot.send_message calls issued so far
    from_date,          \* params['from_date'] of the latest requests.get call
    cur,                \* what the current iteration of the loop has done
    prev,               \* what the previous iteration of the loop did
    arg,                \* argument of the function under unit check
    res                 \* result of the function under unit check

vars == <<tokens, pc, now, current_timestamp, previous_message, message,
          fetch_calls, send_calls, from_date, cur, prev, arg, res>>

-----------------------------------------------------------------------------
(* Bounds of the model *)

\* the loop is followed for MaxCycles sleeps, i.e. MaxCycles + 1 iterations
MaxCycles == 2
\* longest homeworks list the server returns
MaxHomeworks == 2
\* sleeps followed when only runs of failures are looked at
MaxRunCycles == 3

-----------------------------------------------------------------------------
(* Program constants *)

RETRY_TIME == 600
HTTP_OK == 200
TOKENS_NAME == {"PRACTICUM_TOKEN", "TELEGRAM_TOKEN", "TELEGRAM_CHAT_ID"}
ENDPOINT == "https://practicum.yandex.ru/api/user_api/homework_statuses/"

\* 'approved': 'Работа проверена: ревьюеру всё понравилось. Ура!'
\* 'reviewing': 'Работа взята на проверку ревьюером.'
\* 'rejected': 'Работа проверена: у ревьюера есть замечания.'
VERDICTS ==
    [approved  |-> "Rabota proverena: revyueru vsyo ponravilos. Ura!",
     reviewing |-> "Rabota vzyata na proverku revyuerom.",
     rejected  |-> "Rabota proverena: u revyuera est zamechaniya."]

\* os.getenv returns None for a variable that is not set
None == "<None>"

\* HEADERS = {'Authorization': f'OAuth {PRACTICUM_TOKEN}'}
HEADERS == <<"Authorization", "OAuth ", tokens["PRACTICUM_TOKEN"]>>

-----------------------------------------------------------------------------
(* JSON values, as response.json() builds them *)

JNull == [t |-> "null", v |-> <<>>]
JInt(n) == [t |-> "int", v |-> n]
JStr(s) == [t |-> "str", v |-> s]
JList(q) == [t |-> "list", v |-> q]
JDict(f) == [t |-> "dict", v |-> f]

EmptyDict == JDict([k \in {} |-> JNull])

\* a dict with one more key
With(d, k, x) == JDict([j \in DOMAIN d.v \cup {k} |-> IF j = k THEN x ELSE d.v[j]])

\* len(x); "TypeError" for an object without a length
PyLen(x) ==
    CASE x.t = "dict" -> Cardinality(DOMAIN x.v)
      [] x.t = "list" -> Len(x.v)
      [] OTHER -> -1

PyHasLen(x) == x.t \in {"dict", "list"}

\* key in x, for a container x
PyIn(key, x) ==
    CASE x.t = "dict" -> key \in DOMAIN x.v
      [] x.t = "list" -> \E i \in 1..Len(x.v) : x.v[i] = JStr(key)
      [] OTHER -> FALSE

\* str(x) pieces of a JSON value used as a format argument
PyStr(x) ==
    CASE x.t = "str" -> x.v
      [] x.t = "int" -> ToString(x.v)
      [] x.t = "null" -> "None"
      [] OTHER -> "<object>"

-----------------------------------------------------------------------------
(* Results of a call: a returned value or a raised exception *)

Return(x) == [exc |-> "none", text |-> <<>>, val |-> x]
Raise(kind, text) == [exc |-> kind, text |-> text, val |-> JNull]
Raised(r) == r.exc # "none"

-----------------------------------------------------------------------------
(* What the network hands back to requests.get *)

\* a body that response.json() cannot parse
Unparseable == [t |-> "unparseable", v |-> <<>>]

\* params = {'from_date': current_timestamp}
Params(timestamp) == [from_date |-> timestamp]

\* 'Параметры запроса {ENDPOINT}, {HEADERS}, {params}.'
RequestParams(timestamp) ==
    <<ENDPOINT>> \o HEADERS
        \o <<"from_date", ToString(Params(timestamp).from_date)>>

\* get_api_answer(current_timestamp), for the outcome o of requests.get:
\* o.net is "fail" when requests.get raises RequestException, otherwise
\* o.status_code and o.body are the response's
get_api_answer(timestamp, o) ==
    IF o.net = "fail"
    THEN \* 'Ошибка соединения - {error}. Параметры запроса ...'
         Raise("RequestException",
               <<"Oshibka soedineniya - ", "<error>", ". Parametry zaprosa ">>
                   \o RequestParams(timestamp))
    ELSE IF o.status_code # HTTP_OK
    THEN \* 'Ошибка доступа к серверу. Код ошибки - {status_code}. ...'
         Raise("ServerError",
               <<"Oshibka dostupa k serveru. Kod oshibki - ",
                 ToString(o.status_code), ". Parametry zaprosa ">>
                   \o RequestParams(timestamp))
    ELSE IF o.body = Unparseable
    THEN \* response.json() raises, nothing in the function catches it
         Raise("JSONDecodeError", <<"Expecting value">>)
    ELSE IF o.body.t \notin {"dict", "list"}
    THEN \* 'error' in answer, for an answer that is no container
         Raise("TypeError", <<"argument of type is not iterable">>)
    ELSE IF PyIn("error", o.body)
    THEN IF o.body.t = "dict"
         THEN \* 'Отказ API - "error": {}. Параметры запроса: {}, {}, {}.'
              Raise("WrongAPIAnswerError",
                    <<"Otkaz API - \"error\": ", PyStr(o.body.v["error"]),
                      ". Parametry zaprosa: ">> \o RequestParams(timestamp))
         ELSE \* answer['error'] on a list
              Raise("TypeError", <<"list indices must be integers">>)
    ELSE IF PyIn("code", o.body)
    THEN IF o.body.t = "dict"
         THEN \* 'Отказ API - "code": {}. Параметры запроса: {}, {}, {}.'
              Raise("WrongAPIAnswerError",
                    <<"Otkaz API - \"code\": ", PyStr(o.body.v["code"]),
                      ". Parametry zaprosa: ">> \o RequestParams(timestamp))
         ELSE Raise("TypeError", <<"list indices must be integers">>)
    ELSE Return(o.body)

\* check_response without the isinstance(response, dict) test
check_response_no_type_test(response) ==
    IF ~PyHasLen(response)
    THEN Raise("TypeError", <<"object has no len()">>)
    ELSE IF PyLen(response) = 0
    THEN Raise("WrongAPIAnswerError", <<"Pustoy otvet API.">>)
    ELSE IF ~PyIn("homeworks", response)
    THEN Raise("WrongAPIAnswerError",
               <<"V otvete API otsutstvuet klyuch \"homeworks\".">>)
    ELSE IF response.v["homeworks"].t # "list"
    THEN Raise("TypeError", <<"Obyekt \"homeworks\" ne yavlyaetsya spiskom">>)
    ELSE Return(response.v["homeworks"])

\* check_response(response)
check_response(response) ==
    IF ~PyHasLen(response)
    THEN \* len(response) on an object without a length
         Raise("TypeError", <<"object has no len()">>)
    ELSE IF PyLen(response) = 0
    THEN \* 'Пустой ответ API.'
         Raise("WrongAPIAnswerError", <<"Pustoy otvet API.">>)
    ELSE IF response.t # "dict"
    THEN \* 'Некорректный тип ответа API: "{type(response)}".'
         Raise("TypeError",
               <<"Nekorrektnyy tip otveta API: \"", response.t, "\".">>)
    ELSE IF ~PyIn("homeworks", response)
    THEN \* 'В ответе API отсутствует ключ "homeworks".'
         Raise("WrongAPIAnswerError",
               <<"V otvete API otsutstvuet klyuch \"homeworks\".">>)
    ELSE IF response.v["homeworks"].t # "list"
    THEN \* 'Объект "homeworks" не является списком'
         Raise("TypeError", <<"Obyekt \"homeworks\" ne yavlyaetsya spiskom">>)
    ELSE Return(response.v["homeworks"])

\* homework[key]
Subscript(homework, key) ==
    CASE homework.t = "dict" ->
             IF key \in DOMAIN homework.v
             THEN Return(homework.v[key])
             ELSE Raise("KeyError", <<"'", key, "'">>)
      [] homework.t = "list" ->
             Raise("TypeError", <<"list indices must be integers">>)
      [] homework.t = "str" ->
             Raise("TypeError", <<"string indices must be integers">>)
      [] OTHER -> Raise("TypeError", <<"object is not subscriptable">>)

\* status in VERDICTS
KnownStatus(status) == status.t = "str" /\ status.v \in DOMAIN VERDICTS

\* parse_status without the membership test: VERDICTS.get(status) is None
\* for a status that is no key of VERDICTS
parse_status_unchecked(homework) ==
    LET name == Subscript(homework, "homework_name")
        status == Subscript(homework, "status")
    IN  IF Raised(name) THEN name
        ELSE IF Raised(status) THEN status
        ELSE Return(<<"Izmenilsya status proverki raboty \"",
                      PyStr(name.val), "\". ",
                      IF KnownStatus(status.val)
                      THEN VERDICTS[status.val.v] ELSE "None">>)

\* parse_status with the arguments of format() in the other order
parse_status_swapped(homework) ==
    LET name == Subscript(homework, "homework_name")
        status == Subscript(homework, "status")
    IN  IF Raised(name) THEN name
        ELSE IF Raised(status) THEN status
        ELSE IF status.val.t \in {"list", "dict"}
        THEN Raise("TypeError", <<"unhashable type">>)
        ELSE IF ~KnownStatus(status.val)
        THEN Raise("ValueError",
                   <<"Neozhidannyy status \"", PyStr(status.val),
                     "\" domashney raboty!">>)
        ELSE Return(<<"Izmenilsya status proverki raboty \"",
                      VERDICTS[status.val.v], "\". ", PyStr(name.val)>>)

\* parse_status(homework)
parse_status(homework) ==
    LET name == Subscript(homework, "homework_name")
        status == Subscript(homework, "status")
    IN  IF Raised(name) THEN name
        ELSE IF Raised(status) THEN status
        ELSE IF status.val.t \in {"list", "dict"}
        THEN \* VERDICTS.get(status) hashes the status
             Raise("TypeError", <<"unhashable type">>)
        ELSE IF ~KnownStatus(status.val)
        THEN \* 'Неожиданный статус "{status}" домашней работы!'
             Raise("ValueError",
                   <<"Neozhidannyy status \"", PyStr(status.val),
                     "\" domashney raboty!">>)
        ELSE \* 'Изменился статус проверки работы "{}". {}'
             Return(<<"Izmenilsya status proverki raboty \"",
                      PyStr(name.val), "\". ", VERDICTS[status.val.v]>>)

\* check_tokens() looking at the first name of TOKENS_NAME only
check_tokens_first_only == tokens["PRACTICUM_TOKEN"] # None

\* check_tokens()
check_tokens ==
    LET missing_tokens == {name \in TOKENS_NAME : tokens[name] = None}
    IN  Cardinality(missing_tokens) = 0

\* send_message returning True from the except clause as well
send_message_always_true(delivered) == TRUE

\* send_message(bot, message): TRUE when bot.send_message returns, FALSE
\* when it raises (the exception is logged and swallowed)
send_message(delivered) == IF delivered THEN TRUE ELSE FALSE

-----------------------------------------------------------------------------
(* Inputs: what the environment, the server and the chat API can do *)

\* values of an environment variable: not set, set to '', set to a token
TokenValues == {None, "", "token"}

\* the environments of a run: at most one variable is not a token
TokenSettings ==
    {f \in [TOKENS_NAME -> TokenValues] :
         Cardinality({name \in TOKENS_NAME : f[name] # "token"}) <= 1}

Names == {"proj1", "x"}
Statuses == {"approved", "reviewing", "rejected", "unknown_status"}

Homework(name, status) ==
    JDict([k \in {"homework_name", "status"} |->
              IF k = "homework_name" THEN JStr(name) ELSE JStr(status)])

\* homework records: well-formed ones, and ones lacking a key
HomeworkItems ==
    {Homework("proj1", s) : s \in Statuses}
        \cup {Homework("x", "approved"),
              With(EmptyDict, "homework_name", JStr("proj1")),
              With(EmptyDict, "status", JStr("unknown_status"))}

\* records that follow the first one of a list
TailItems == {Homework("x", "unknown_status")}

\* lists of at most MaxHomeworks records
HomeworkLists ==
    {<<>>} \cup
    UNION {{<<h>> \o tail : h \in HomeworkItems, tail \in [1..n -> TailItems]} :
               n \in 0..(MaxHomeworks - 1)}

\* the current_date values the server echoes
ServerDates == {0, RETRY_TIME}

ErrorBodies ==
    {With(EmptyDict, "error", JStr("denied")),
     With(EmptyDict, "code", JStr("not_authenticated")),
     With(With(EmptyDict, "error", JStr("denied")), "code",
          JStr("not_authenticated")),
     With(With(EmptyDict, "homeworks", JList(<<>>)), "error", JStr("denied"))}

Bodies ==
    {EmptyDict, JNull, JInt(1), JList(<<>>), JList(<<JInt(1)>>),
     JList(<<JStr("error")>>), JList(<<JStr("code")>>),
     With(EmptyDict, "homeworks", JStr("none")),
     With(EmptyDict, "homeworks", EmptyDict)}
        \cup ErrorBodies
        \cup {With(EmptyDict, "current_date", JInt(d)) : d \in ServerDates}
        \cup {With(EmptyDict, "homeworks", JList(h)) : h \in HomeworkLists}
        \cup {With(With(EmptyDict, "homeworks", JList(h)),
                   "current_date", JInt(d)) :
                  h \in HomeworkLists, d \in ServerDates}

StatusCodes == {HTTP_OK, 503}

\* outcomes of requests.get
FetchOutcomes ==
    {[net |-> "fail", status_code |-> 0, body |-> Unparseable]}
        \cup {[net |-> "ok", status_code |-> HTTP_OK, body |-> b] :
                  b \in Bodies \cup {Unparseable}}
        \cup {[net |-> "ok", status_code |-> c, body |-> b] :
                  c \in StatusCodes \ {HTTP_OK},
                  b \in ErrorBodies \cup {Unparseable}}

-----------------------------------------------------------------------------
(* main() *)

\* a local name that no assignment has bound yet
Unbound == [bound |-> FALSE, text |-> <<>>]
Bound(text) == [bound |-> TRUE, text |-> text]

NoFetch == -1
NoDate == -1

\* nothing done yet in this iteration
NewCycle ==
    [src |-> "none", exc |-> "none", same |-> FALSE, validated |-> FALSE,
     homeworks |-> <<>>, sent |-> FALSE, ok |-> FALSE, start_ts |-> NoDate,
     cd |-> NoDate, api |-> "none", run_ok |-> FALSE, preset |-> FALSE]
NoCycle == [src |-> "none", ok |-> FALSE, run_ok |-> FALSE, preset |-> FALSE]

\* the environments in which every variable that is set holds a token
UnsetSettings ==
    {f \in TokenSettings : \A name \in TOKENS_NAME : f[name] # ""}

\* the state when main() is called, for the environments of settings
InitIn(settings) ==
    /\ tokens \in settings
    /\ pc = "start"
    /\ now = 0
    /\ current_timestamp = 0
    /\ previous_message = <<>>
    /\ message = Unbound
    /\ fetch_calls = 0
    /\ send_calls = 0
    /\ from_date = NoFetch
    /\ cur = NewCycle
    /\ prev = NoCycle
    /\ arg = JNull
    /\ res = Return(JNull)

Init == InitIn(UnsetSettings)

\* main(), up to the loop: the credential check ends the run with
\* ValueError; Bot(token=TELEGRAM_TOKEN) is the library's constructor, which
\* depending on its version rejects an empty token with InvalidToken
Startup ==
    /\ pc = "start"
    /\ \E bot_ok \in IF tokens["TELEGRAM_TOKEN"] = "" THEN BOOLEAN ELSE {TRUE} :
          IF check_tokens /\ bot_ok
          THEN /\ pc' = "poll"
               /\ current_timestamp' = now
               /\ previous_message' = <<>>
          ELSE /\ pc' = "halted"
               /\ UNCHANGED <<current_timestamp, previous_message>>
    /\ UNCHANGED <<tokens, now, message, fetch_calls, send_calls, from_date,
                   cur, prev, arg, res>>

\* f'Сбой в работе программы: {error}'
FailureMessage(error) == <<"Sboy v rabote programmy: ">> \o error.text

\* the wall clock taken whatever the response carries
GetCurrentDate_clock_only(response, clock) == clock

\* response.get('current_date', int(time.time()))
GetCurrentDate(response, clock) ==
    IF "current_date" \in DOMAIN response.v
    THEN response.v["current_date"].v
    ELSE clock

\* previous_message = '' placed after every statement of the try block
ResetPrevious_always(validated, previous) == <<>>

\* previous_message = '', reached when get_api_answer and check_response
\* have returned
ResetPrevious(validated, previous) ==
    IF validated THEN <<>> ELSE previous

\* the current_date of the body the server sent, NoDate when it sent none
EchoedDate(o) ==
    IF /\ o.net = "ok"
       /\ o.body.t = "dict"
       /\ "current_date" \in DOMAIN o.body.v
    THEN o.body.v["current_date"].v
    ELSE NoDate

\* the try block of one iteration with its except clause, for the outcome
\* o of requests.get
TryBlock(o) ==
    LET response == get_api_answer(current_timestamp, o)
        homeworks == check_response(response.val)
        validated == ~Raised(response) /\ ~Raised(homeworks)
        nonempty == validated /\ Len(homeworks.val.v) > 0
        parsed == parse_status(homeworks.val.v[1])
        src == IF Raised(response) THEN "fetch"
               ELSE IF Raised(homeworks) THEN "check"
               ELSE IF ~nonempty THEN "none"
               ELSE IF Raised(parsed) THEN "parse"
               ELSE "status"
        text == CASE src = "fetch" -> FailureMessage(response)
                  [] src = "check" -> FailureMessage(homeworks)
                  [] src = "parse" -> FailureMessage(parsed)
                  [] src = "status" -> parsed.val
                  [] OTHER -> <<>>
    IN  /\ pc = "poll"
        /\ pc' = "finally"
        /\ fetch_calls' = fetch_calls + 1
        /\ from_date' = Params(current_timestamp).from_date
        /\ previous_message' = ResetPrevious(validated, previous_message)
        /\ current_timestamp' =
               IF validated THEN GetCurrentDate(response.val, now)
               ELSE current_timestamp
        /\ message' = IF src = "none" THEN message ELSE Bound(text)
        /\ cur' = [src |-> src,
                   exc |-> CASE src = "fetch" -> response.exc
                             [] src = "check" -> homeworks.exc
                             [] src = "parse" -> parsed.exc
                             [] OTHER -> "none",
                   same |-> /\ src # "none"
                            /\ prev.src # "none"
                            /\ message = Bound(text),
                   validated |-> validated,
                   homeworks |-> IF validated THEN homeworks.val.v ELSE <<>>,
                   sent |-> FALSE, ok |-> FALSE,
                   start_ts |-> current_timestamp,
                   cd |-> EchoedDate(o),
                   api |-> "none",
                   run_ok |-> /\ src # "none"
                              /\ prev.src # "none"
                              /\ message = Bound(text)
                              /\ prev.run_ok,
                   preset |-> IF /\ src # "none"
                                 /\ prev.src # "none"
                                 /\ message = Bound(text)
                              THEN prev.preset
                              ELSE src # "none" /\ previous_message = text]
        /\ UNCHANGED <<tokens, now, send_calls, prev, arg, res>>

\* the finally block calling send_message a second time after a failure
FinallyBlock_retry(delivered) ==
    /\ pc = "finally"
    /\ IF ~message.bound
       THEN /\ pc' = "crashed"
            /\ UNCHANGED <<previous_message, send_calls, cur>>
       ELSE IF message.text # <<>> /\ message.text # previous_message
       THEN /\ pc' = "sleep"
            /\ send_calls' = IF send_message(delivered) THEN send_calls + 1
                             ELSE send_calls + 2
            /\ previous_message' =
                   IF send_message(delivered) THEN message.text
                   ELSE previous_message
            /\ cur' = [cur EXCEPT !.sent = TRUE,
                                  !.ok = send_message(delivered),
                                  !.api = IF delivered THEN "ok" ELSE "raised"]
       ELSE /\ pc' = "sleep"
            /\ UNCHANGED <<previous_message, send_calls, cur>>
    /\ UNCHANGED <<tokens, now, current_timestamp, message, fetch_calls,
                   from_date, prev, arg, res>>

\* the finally block up to the sleep, for the outcome of bot.send_message;
\* reading the unbound name message raises UnboundLocalError, which leaves
\* main()
FinallyBlock(delivered) ==
    /\ pc = "finally"
    /\ IF ~message.bound
       THEN /\ pc' = "crashed"
            /\ UNCHANGED <<previous_message, send_calls, cur>>
       ELSE IF message.text # <<>> /\ message.text # previous_message
       THEN /\ pc' = "sleep"
            /\ send_calls' = send_calls + 1
            /\ previous_message' =
                   IF send_message(delivered) THEN message.text
                   ELSE previous_message
            /\ cur' = [cur EXCEPT !.sent = TRUE,
                                  !.ok = send_message(delivered),
                                  !.api = IF delivered THEN "ok" ELSE "raised"]
       ELSE /\ pc' = "sleep"
            /\ UNCHANGED <<previous_message, send_calls, cur>>
    /\ UNCHANGED <<tokens, now, current_timestamp, message, fetch_calls,
                   from_date, prev, arg, res>>

\* time.sleep(RETRY_TIME) and the jump back to the head of the loop,
\* followed for at most max sleeps
SleepUpTo(max) ==
    /\ pc = "sleep"
    /\ now < max * RETRY_TIME
    /\ now' = now + RETRY_TIME
    /\ pc' = "poll"
    /\ prev' = [src |-> cur.src, ok |-> cur.ok,
                run_ok |-> cur.run_ok \/ cur.api = "ok",
                preset |-> cur.preset]
    /\ cur' = NewCycle
    /\ UNCHANGED <<tokens, current_timestamp, previous_message, message,
                   fetch_calls, send_calls, from_date, arg, res>>

Sleep == SleepUpTo(MaxCycles)

Next ==
    \/ Startup
    \/ \E o \in FetchOutcomes : TryBlock(o)
    \/ \E delivered \in BOOLEAN : FinallyBlock(delivered)
    \/ Sleep

Spec == Init /\ [][Next]_vars

-----------------------------------------------------------------------------
(* Properties of main() *)

FailureSources == {"fetch", "check", "parse"}

\* C1: when two consecutive iterations compute the identical status message
\* and the first one's delivery succeeded, the second iteration makes no
\* delivery call.
C1_StatusDuplicateSuppressed ==
    (pc = "sleep" /\ cur.src = "status" /\ cur.same /\ prev.ok) => ~cur.sent

\* C2: when two consecutive iterations produce the identical failure message
\* (error raised in fetch, validation or translation) and the first one was
\* delivered successfully, the second iteration makes no delivery call.
C2_FailureDuplicateSuppressed ==
    (pc = "sleep" /\ cur.src \in FailureSources /\ cur.same /\ prev.ok)
        => ~cur.sent

\* C3: an iteration whose response is well-formed with an empty homeworks
\* list makes no delivery call.
C3_EmptyListNoDelivery ==
    (cur.validated /\ cur.homeworks = <<>>) => ~cur.sent

\* C4: once the loop is entered it never terminates: main() is left only at
\* startup, before any fetch.
C4_LoopNeverTerminates ==
    /\ pc # "crashed"
    /\ pc = "halted" => fetch_calls = 0

\* C5: when one of the three credentials is missing, main() fails before the
\* loop and issues no fetch call and no delivery call.
C5_MissingCredentialNoCalls ==
    (\E name \in TOKENS_NAME : tokens[name] = None)
        => /\ pc \in {"start", "halted"}
           /\ fetch_calls = 0
           /\ send_calls = 0

C5_Witness ==
    /\ pc = "halted"
    /\ tokens["TELEGRAM_CHAT_ID"] = None
    /\ tokens["PRACTICUM_TOKEN"] # None

\* C6: current_timestamp never decreases, and the from_date of a fetch is
\* never smaller than the from_date of an earlier fetch.
C6_TimestampMonotonic ==
    [][/\ current_timestamp' >= current_timestamp
       /\ (from_date # NoFetch => from_date' >= from_date)]_vars

\* C7: after the try block of an iteration whose response passed validation
\* and carried current_date, current_timestamp is that current_date; it stays
\* so until the next fetch, and every fetch sends from_date equal to the
\* current_timestamp held when its iteration began.
C7_TimestampFollowsCurrentDate ==
    [][/\ (pc = "poll" /\ pc' = "finally")
              => /\ from_date' = current_timestamp
                 /\ (cur'.validated /\ cur'.cd # NoDate)
                        => current_timestamp' = cur'.cd
       /\ (pc \in {"finally", "sleep"})
              => current_timestamp' = current_timestamp]_vars

\* the second fetch was sent with the date echoed in the first iteration,
\* and the second iteration echoed another date
C7_Witness ==
    /\ pc = "finally"
    /\ fetch_calls = 2
    /\ from_date = RETRY_TIME
    /\ cur.validated
    /\ cur.cd = 0
    /\ current_timestamp = 0

\* the record at position i of the list carries a status that is no key of
\* VERDICTS
UnknownAt(homeworks, i) ==
    /\ homeworks[i].t = "dict"
    /\ "status" \in DOMAIN homeworks[i].v
    /\ ~KnownStatus(homeworks[i].v["status"])

\* the failure message of an iteration that met the unknown status of the
\* record at position i
UnknownVerdictMessage(homeworks, i) ==
    Bound(<<"Sboy v rabote programmy: ", "Neozhidannyy status \"",
            homeworks[i].v["status"].v, "\" domashney raboty!">>)

\* C8 as stated: a validated response with an unknown status at any position
\* of the homeworks list makes the iteration fail with the unknown-verdict
\* error naming that status, and no status message is produced.
C8_UnknownAnywhereFails ==
    \A i \in 1..Len(cur.homeworks) :
        (pc = "finally" /\ cur.validated /\ UnknownAt(cur.homeworks, i))
            => /\ cur.src = "parse"
               /\ cur.exc = "ValueError"
               /\ message = UnknownVerdictMessage(cur.homeworks, i)

\* C8 amended: a validated response whose first homework record carries
\* homework_name and an unknown status makes the iteration fail with
\* ValueError naming that status, and no status message is produced.
C8_UnknownFirstFails ==
    (/\ pc = "finally"
     /\ cur.validated
     /\ Len(cur.homeworks) > 0
     /\ UnknownAt(cur.homeworks, 1)
     /\ "homework_name" \in DOMAIN cur.homeworks[1].v)
        => /\ cur.src = "parse"
           /\ cur.exc = "ValueError"
           /\ message = UnknownVerdictMessage(cur.homeworks, 1)

C8_Witness ==
    /\ pc = "finally"
    /\ cur.validated
    /\ cur.homeworks = <<Homework("proj1", "unknown_status")>>
    /\ cur.exc = "ValueError"

-----------------------------------------------------------------------------
(* get_api_answer and check_response on their own: the argument is drawn   *)
(* from the inputs, the call stores its result                             *)

AllTokensSet == [name \in TOKENS_NAME |-> "token"]

InitCall(arguments) ==
    /\ tokens = AllTokensSet
    /\ pc = "call"
    /\ now = 0
    /\ current_timestamp = 0
    /\ previous_message = <<>>
    /\ message = Unbound
    /\ fetch_calls = 0
    /\ send_calls = 0
    /\ from_date = NoFetch
    /\ cur = NewCycle
    /\ prev = NoCycle
    /\ arg \in arguments
    /\ res = Return(JNull)

InitGetApiAnswer ==
    InitCall([o : FetchOutcomes, timestamp : ServerDates])

CallGetApiAnswer ==
    /\ pc = "call"
    /\ pc' = "returned"
    /\ res' = get_api_answer(arg.timestamp, arg.o)
    /\ UNCHANGED <<tokens, now, current_timestamp, previous_message, message,
                   fetch_calls, send_calls, from_date, cur, prev, arg>>

NextGetApiAnswer == CallGetApiAnswer

SpecGetApiAnswer == InitGetApiAnswer /\ [][NextGetApiAnswer]_vars

InitCheckResponse == InitCall(Bodies)

CallCheckResponse ==
    /\ pc = "call"
    /\ pc' = "returned"
    /\ res' = check_response(arg)
    /\ UNCHANGED <<tokens, now, current_timestamp, previous_message, message,
                   fetch_calls, send_calls, from_date, cur, prev, arg>>

NextCheckResponse == CallCheckResponse

SpecCheckResponse == InitCheckResponse /\ [][NextCheckResponse]_vars

\* the exception classes that stand for a malformed response: the one
\* check_response raises for it, and the one exceptions.py declares for a
\* body that is no JSON
MalformedResponseKinds == {"WrongAPIAnswerError", "DataAPIFormatError"}

\* C9: get_api_answer maps a network failure to the connection error, a
\* non-200 status to the server error, an unparseable body to the malformed
\* response error, a body with a top-level error or code key to the API
\* refusal, and returns the parsed body otherwise.
C9_FetchOutcomeKinds ==
    pc = "returned" =>
        LET o == arg.o
        IN  IF o.net = "fail" THEN res.exc = "RequestException"
            ELSE IF o.status_code # HTTP_OK THEN res.exc = "ServerError"
            ELSE IF o.body = Unparseable
            THEN res.exc \in MalformedResponseKinds
            ELSE IF /\ o.body.t = "dict"
                    /\ {"error", "code"} \cap DOMAIN o.body.v # {}
            THEN res.exc = "WrongAPIAnswerError"
            ELSE res = Return(o.body)

\* C10: check_response fails with WrongAPIAnswerError on an empty body, with
\* TypeError on a non-empty body that is no mapping, with
\* WrongAPIAnswerError on a mapping without the homeworks key, with
\* TypeError on a homeworks value that is no list, and returns the homeworks
\* list unchanged otherwise; no other exception leaves it.
C10_CheckResponseClassifies ==
    pc = "returned" =>
        IF arg = EmptyDict \/ arg = JList(<<>>)
        THEN res.exc = "WrongAPIAnswerError"
        ELSE IF arg.t # "dict" THEN res.exc = "TypeError"
        ELSE IF "homeworks" \notin DOMAIN arg.v
        THEN res.exc = "WrongAPIAnswerError"
        ELSE IF arg.v["homeworks"].t # "list" THEN res.exc = "TypeError"
        ELSE res = Return(arg.v["homeworks"])

C10_Witness ==
    /\ pc = "returned"
    /\ arg = JList(<<JInt(1)>>)
    /\ res.exc = "TypeError"

-----------------------------------------------------------------------------
(* Further properties of main() *)

\* C11: a failed delivery neither ends the loop nor replaces the message by
\* a failure message; an iteration makes at most one delivery attempt, in
\* its finally block, after the try block and before the sleep.
C11_DeliveryFailureContained ==
    [][/\ send_calls' <= send_calls + 1
       /\ send_calls' # send_calls
              => (pc = "finally" /\ pc' = "sleep" /\ ~cur.sent)
       /\ (pc = "finally" /\ cur'.api = "raised")
              => /\ pc' = "sleep"
                 /\ message' = message
                 /\ previous_message' = previous_message]_vars

\* the first iteration's delivery failed, the loop went on and the second
\* iteration's delivery failed too
C11_Witness ==
    /\ pc = "sleep"
    /\ fetch_calls = 2
    /\ send_calls = 2
    /\ ~prev.ok
    /\ cur.api = "raised"

\* C12: the loop is entered only when all three credentials are present and
\* non-empty; an empty credential ends main() at startup before any fetch.
C12_EmptyCredentialHalts ==
    (\E name \in TOKENS_NAME : tokens[name] \in {None, ""})
        => /\ pc \in {"start", "halted"}
           /\ fetch_calls = 0

\* the fixed text of a known verdict code
FixedVerdictText(code) ==
    CASE code = "approved" ->
             "Rabota proverena: revyueru vsyo ponravilos. Ura!"
      [] code = "reviewing" -> "Rabota vzyata na proverku revyuerom."
      [] code = "rejected" ->
             "Rabota proverena: u revyuera est zamechaniya."

\* the record carries homework_name and one of the three known codes
WellFormedKnown(homework) ==
    /\ homework.t = "dict"
    /\ {"homework_name", "status"} \subseteq DOMAIN homework.v
    /\ homework.v["status"].t = "str"
    /\ homework.v["status"].v \in {"approved", "reviewing", "rejected"}

\* C13: for a homework record with homework_name and a known verdict code
\* parse_status raises nothing and returns
\* 'Изменился статус проверки работы "<name>". <verdict text>'.
C13_KnownStatusMessage ==
    (/\ pc = "finally"
     /\ cur.validated
     /\ Len(cur.homeworks) > 0
     /\ WellFormedKnown(cur.homeworks[1]))
        => /\ cur.src = "status"
           /\ cur.exc = "none"
           /\ message =
                  Bound(<<"Izmenilsya status proverki raboty \"",
                          cur.homeworks[1].v["homework_name"].v, "\". ",
                          FixedVerdictText(cur.homeworks[1].v["status"].v)>>)

C13_Witness ==
    /\ pc = "finally"
    /\ cur.homeworks = <<Homework("proj1", "approved")>>
    /\ message =
           Bound(<<"Izmenilsya status proverki raboty \"", "proj1", "\". ",
                   "Rabota proverena: revyueru vsyo ponravilos. Ura!">>)

\* C14: an iteration that ends in a failure message leaves current_timestamp
\* at the value it had when the iteration began.
C14_FailureKeepsTimestamp ==
    (pc = "finally" /\ cur.src \in FailureSources)
        => current_timestamp = cur.start_ts

\* The loop in every environment of TokenSettings, under answers that fail
\* in fetch or validation and one answer that passes validation, followed
\* for MaxRunCycles sleeps
RunOutcomes ==
    {[net |-> "fail", status_code |-> 0, body |-> Unparseable],
     [net |-> "ok", status_code |-> 503, body |-> Unparseable],
     [net |-> "ok", status_code |-> HTTP_OK, body |-> Unparseable],
     [net |-> "ok", status_code |-> HTTP_OK, body |-> EmptyDict],
     [net |-> "ok", status_code |-> HTTP_OK,
      body |-> With(EmptyDict, "current_date", JInt(RETRY_TIME))],
     [net |-> "ok", status_code |-> HTTP_OK,
      body |-> With(EmptyDict, "homeworks",
                    JList(<<Homework("proj1", "approved")>>))]}

InitFailureRuns == InitIn(TokenSettings)

SleepRun == SleepUpTo(MaxRunCycles)

NextFailureRuns ==
    \/ Startup
    \/ \E o \in RunOutcomes : TryBlock(o)
    \/ \E delivered \in BOOLEAN : FinallyBlock(delivered)
    \/ SleepRun

SpecFailureRuns == InitFailureRuns /\ [][NextFailureRuns]_vars

\* C15 as stated: in the second and later iterations of a run of identical
\* fetch or validation failures, a delivery call is made exactly when no
\* delivery of the run has succeeded yet.
C15_AttemptUntilDelivered ==
    (pc = "sleep" /\ cur.src \in {"fetch", "check"} /\ cur.same)
        => (cur.sent <=> ~cur.run_ok)

\* C15 amended: ... exactly when no delivery of the run has succeeded yet
\* and previous_message did not already hold that failure message when the
\* run began.
C15_AttemptUntilDeliveredOrPreset ==
    (pc = "sleep" /\ cur.src \in {"fetch", "check"} /\ cur.same)
        => (cur.sent <=> ~(cur.run_ok \/ cur.preset))

\* third iteration of a run: the first delivery failed, the second
\* succeeded, the third iteration makes no call
C15_Witness ==
    /\ pc = "sleep"
    /\ fetch_calls = 3
    /\ send_calls = 2
    /\ prev.src = "fetch"
    /\ cur.src = "fetch"
    /\ cur.same
    /\ cur.run_ok
    /\ ~cur.preset
    /\ prev.ok
    /\ ~cur.sent

\* C16: previous_message only ever changes to the empty string or to the
\* message whose delivery call has just returned successfully.
C16_PreviousMessageDelivered ==
    [][previous_message' # previous_message
           => \/ previous_message' = <<>>
              \/ /\ pc = "finally"
                 /\ cur'.api = "ok"
                 /\ send_calls' = send_calls + 1
                 /\ previous_message' = message.text]_vars

C16_Witness ==
    /\ pc = "sleep"
    /\ cur.api = "ok"
    /\ previous_message = message.text
    /\ previous_message # <<>>

====
